---------------------------- MODULE Spec2Model ----------------------------
(***************************************************************************)
(* A model of the account-mapping backend (src/backend/main.py): the       *)
(* retrying completion client ClaudeAPIClient, its response parser, and    *)
(* the map_accounts batch handler with its in-memory session records.      *)
(*                                                                         *)
(* Coroutines are modelled at their await points: one action runs a        *)
(* handler from one await to the next.  Strings are sequences of tokens,   *)
(* so that substring tests, concatenation and regular-expression           *)
(* extraction are computed and not assumed.                                *)
(***************************************************************************)
EXTENDS Integers, Sequences, FiniteSets, TLC

VARIABLES
    client,            \* the global claude_client: its session handle and the connections made
    cc,                \* per caller: the frame of its running chat_completion call
    req,               \* per caller: the frame of the handler (or direct call) it runs
    mapping_sessions,  \* the global dict session_id -> session record
    uploaded_files_data \* the global dict session_id -> data of an uploaded file

vars == <<client, cc, req, mapping_sessions, uploaded_files_data>>

-----------------------------------------------------------------------------
(* Bounds of the model *)

\* largest max_retries a direct caller of chat_completion passes
MaxRetriesBound == 4

\* longest request.source_accounts of a map_accounts batch
MaxAccounts == 3

\* the largest number of lines of a completion text given to the parser
MaxLines == 5

-----------------------------------------------------------------------------
(* Program constants *)

\* def chat_completion(..., max_retries: int = 3)
DefaultMaxRetries == 3

\* wait_time = (2 ** attempt) * 2 on the overload paths
OverloadBase == 2

\* response.status == 200 / response.status == 529
StatusOK == 200

StatusOverloaded == 529

\* await asyncio.sleep(3) between two accounts of a batch
InterCallDelay == 3

\* confidence_threshold: Optional[int] = 80
DefaultThreshold == 80

\* HTTPException(status_code=500, ...)
StatusInternalError == 500

\* HTTPException(status_code=400, ...)
StatusBadRequest == 400

\* HTTPException(status_code=404, ...)
StatusNotFound == 404

Procs == {"p1", "p2"}

\* an Optional[int]: None, or an integer
None == << >>

Some(n) == <<n>>

ValueOf(opt) == opt[1]

\* an empty dict, and d[k] = v on a dict
EmptyDict == [k \in {} |-> 0]

DictSet(d, k, v) == [x \in DOMAIN d \cup {k} |-> IF x = k THEN v ELSE d[x]]

-----------------------------------------------------------------------------
(* Strings as token sequences *)

Range(s) == {s[i] : i \in 1..Len(s)}

\* str.lower() on one token: only the tokens the model uses in upper case change
LowerTok(t) ==
    CASE t \in {"Overloaded", "OVERLOADED"} -> "overloaded"
      [] t \in {"None", "NONE"} -> "none"
      [] t \in {"Analyze", "ANALYZE"} -> "analyze"
      [] OTHER -> t

Lower(s) == [i \in 1..Len(s) |-> LowerTok(s[i])]

\* `tok in s` for a one-token needle
Contains(s, tok) == tok \in Range(s)

\* str(response.status) inside an f-string
StatusStr(n) ==
    CASE n = 200 -> "200"
      [] n = 400 -> "400"
      [] n = 429 -> "429"
      [] n = 500 -> "500"
      [] n = 529 -> "529"
      [] OTHER -> "?"


-----------------------------------------------------------------------------
(* Completion texts the upstream may generate: token sequences.  A label,  *)
(* a blank, a line break, a digit, a comma and a word are one token each.  *)

TextFull ==
    << "MAPPING:", " ", "E101", "\n", "CONFIDENCE:", " ", "9", "5", "\n",
       "REASONING:", " ", "cash", "\n", "ALTERNATIVES:", " ", "None" >>

TextLow ==
    << "mapping:", " ", "E102", "\n", "confidence:", " ", "7", "0", "\n",
       "reasoning:", " ", "similar", "\n", "alternatives:", " ", "E101", ",", " ", "E103" >>

TextNoConfidence ==
    << "MAPPING:", " ", "E103", "\n", "REASONING:", " ", "guess" >>

TextOver ==
    << "MAPPING:", " ", "E101", "\n", "CONFIDENCE:", " ", "1", "5", "0" >>

Texts == {TextFull, TextLow, TextNoConfidence, TextOver}

-----------------------------------------------------------------------------
(* The upstream: what one POST can end in *)

\* a content block of a 200 body: with a 'text' key or without one
TextBlock(t) == [has_text |-> TRUE, text |-> t]

OtherBlock == [has_text |-> FALSE, text |-> <<>>]

\* the JSON body of a 200 response: with or without the 'content' key
Body(blocks) == [has_content |-> TRUE, content |-> blocks]

BodyNoKey == [has_content |-> FALSE, content |-> <<>>]

Bodies ==
    {BodyNoKey, Body(<<>>), Body(<<OtherBlock>>)}
        \cup {Body(<<TextBlock(t)>>) : t \in Texts}
        \cup {Body(<<TextBlock(TextLow), TextBlock(TextFull)>>)}

\* statuses other than 200 and 529 the upstream answers with
OtherStatuses == {400, 500}

\* messages str(e) of transport errors raised by session.post / response.json
TransportMessages ==
    { << "Server disconnected" >>,
      << "Service ", "Overloaded" >>,
      << "Expecting value: line 1 column ", "529" >> }

Response(st, b) == [kind |-> "response", status |-> st, body |-> b, msg |-> <<>>]

TimeoutOutcome == [kind |-> "timeout", status |-> 0, body |-> BodyNoKey, msg |-> <<>>]

ErrorOutcome(m) == [kind |-> "error", status |-> 0, body |-> BodyNoKey, msg |-> m]

Outcomes ==
    {Response(StatusOK, b) : b \in Bodies}
        \cup {Response(StatusOverloaded, BodyNoKey)}
        \cup {Response(st, BodyNoKey) : st \in OtherStatuses}
        \cup {TimeoutOutcome}
        \cup {ErrorOutcome(m) : m \in TransportMessages}

-----------------------------------------------------------------------------
(* ClaudeAPIClient.chat_completion: one attempt *)

Exc(type, msg) == [type |-> type, msg |-> msg]

MsgNoContent == << "No content in Claude response" >>

MsgOverloaded == << "Claude API is ", "overloaded", ". Please try again later." >>

MsgTimeout == << "Request timeout after multiple retries" >>

MsgMaxRetries == << "Max retries exceeded" >>

MsgStatus(st) == << "Claude API error: ", StatusStr(st) >>

PrefixFailed == << "Failed to get response from Claude: " >>

DoReturn(t) == [do |-> "return", text |-> t, wait |-> 0, exc |-> Exc("", <<>>)]

DoSleep(n) == [do |-> "sleep", text |-> <<>>, wait |-> n, exc |-> Exc("", <<>>)]

DoRaise(e) == [do |-> "raise", text |-> <<>>, wait |-> 0, exc |-> e]

\* faulty variant: the overload backoff without its factor 2
OverloadWait_NoBase(attempt) == 2 ^ attempt

\* wait_time = (2 ** attempt) * 2
OverloadWait(attempt) == (2 ^ attempt) * OverloadBase

\* await asyncio.sleep(2 ** attempt)
TimeoutWait(attempt) == 2 ^ attempt

\* faulty variant: an empty content list is returned as an empty text
OnStatus200_EmptyText(body) ==
    IF body.has_content
    THEN IF Len(body.content) > 0 /\ body.content[1].has_text
         THEN DoReturn(body.content[1].text)
         ELSE DoReturn(<<>>)
    ELSE DoRaise(Exc("Exception", MsgNoContent))

\* the branch `if response.status == 200`
OnStatus200(body) ==
    IF body.has_content /\ Len(body.content) > 0
    THEN IF body.content[1].has_text
         THEN DoReturn(body.content[1].text)
         ELSE DoRaise(Exc("KeyError", << "'text'" >>))
    ELSE DoRaise(Exc("Exception", MsgNoContent))

\* the branch `elif response.status == 529`
OnStatus529(attempt, max_retries) ==
    IF attempt < max_retries - 1
    THEN DoSleep(OverloadWait(attempt))
    ELSE DoRaise(Exc("Exception", MsgOverloaded))

\* the body of the try block, given what the POST ended in
TryBody(o, attempt, max_retries) ==
    CASE o.kind = "timeout" -> DoRaise(Exc("TimeoutError", <<>>))
      [] o.kind = "error" -> DoRaise(Exc("ClientError", o.msg))
      [] o.kind = "response" /\ o.status = StatusOK -> OnStatus200(o.body)
      [] o.kind = "response" /\ o.status = StatusOverloaded ->
            OnStatus529(attempt, max_retries)
      [] OTHER -> DoRaise(Exc("Exception", MsgStatus(o.status)))

\* faulty variant: the last timeout leaves the loop instead of raising its own message
ExceptTimeout_FallsThrough(attempt, max_retries) ==
    IF attempt < max_retries - 1
    THEN DoSleep(TimeoutWait(attempt))
    ELSE DoRaise(Exc("Exception", MsgMaxRetries))

\* except asyncio.TimeoutError
ExceptTimeout(attempt, max_retries) ==
    IF attempt < max_retries - 1
    THEN DoSleep(TimeoutWait(attempt))
    ELSE DoRaise(Exc("Exception", MsgTimeout))

\* `"overloaded" in str(e).lower() or "529" in str(e)`
MentionsOverload(msg) == Contains(Lower(msg), "overloaded") \/ Contains(msg, "529")

\* faulty variant: every exception is retried while attempts remain
ExceptException_RetriesAll(e, attempt, max_retries) ==
    IF attempt < max_retries - 1
    THEN DoSleep(OverloadWait(attempt))
    ELSE DoRaise(Exc("Exception", PrefixFailed \o e.msg))

\* except Exception as e
ExceptException(e, attempt, max_retries) ==
    IF MentionsOverload(e.msg) /\ attempt < max_retries - 1
    THEN DoSleep(OverloadWait(attempt))
    ELSE DoRaise(Exc("Exception", PrefixFailed \o e.msg))

\* one pass through the loop body: the try block and its except clauses
Attempt(o, attempt, max_retries) ==
    LET r == TryBody(o, attempt, max_retries)
    IN  IF r.do # "raise" THEN r
        ELSE IF r.exc.type = "TimeoutError"
             THEN ExceptTimeout(attempt, max_retries)
             ELSE ExceptException(r.exc, attempt, max_retries)

-----------------------------------------------------------------------------
(* ClaudeAPIClient: the connection handle and the call frame *)

\* self.session = None is 0; a connection is numbered by its creation
\* (created counts them); closed holds the connections whose close() has run
NoSession == 0

\* faulty variant: every call of get_session opens a connection of its own
GetSession_AlwaysCreates(c) ==
    [c EXCEPT !.session = c.created + 1, !.created = c.created + 1]

\* get_session: creates the connection when the client holds none
GetSession(c) ==
    IF c.session = NoSession
    THEN [c EXCEPT !.session = c.created + 1, !.created = c.created + 1]
    ELSE c

\* the frame of a chat_completion call; conns lists the connection each POST
\* of the call was sent on
IdleCall ==
    [pc |-> "idle", max_retries |-> 0, attempt |-> 0, session |-> NoSession,
     wait |-> 0, posts |-> 0, conns |-> <<>>, sleeps |-> <<>>, replies |-> <<>>,
     text |-> <<>>, exc |-> Exc("", <<>>)]

\* chat_completion from its entry to its first await: the session is taken,
\* the payload built, and the first POST of `for attempt in range(max_retries)`
\* is sent; an empty range falls through to the final raise
BeginCall(c, max_retries) ==
    IF max_retries > 0
    THEN [IdleCall EXCEPT !.pc = "inflight", !.max_retries = max_retries,
                          !.session = GetSession(c).session, !.posts = 1,
                          !.conns = << GetSession(c).session >>]
    ELSE [IdleCall EXCEPT !.pc = "raised", !.max_retries = max_retries,
                          !.session = GetSession(c).session,
                          !.exc = Exc("Exception", MsgMaxRetries)]

\* the POST in flight ends in outcome o: the attempt runs to its return, its
\* raise or its sleep
ReplyCall(f, o) ==
    LET r == Attempt(o, f.attempt, f.max_retries)
        g == [f EXCEPT !.replies = Append(@, o)]
    IN  CASE r.do = "return" -> [g EXCEPT !.pc = "returned", !.text = r.text]
          [] r.do = "sleep" ->
                [g EXCEPT !.pc = "sleeping", !.wait = r.wait,
                          !.sleeps = Append(@, r.wait)]
          [] OTHER -> [g EXCEPT !.pc = "raised", !.exc = r.exc]

\* faulty variant: the loop runs over range(max_retries - 1)
WakeCall_ShortRange(f) ==
    IF f.attempt + 1 < f.max_retries - 1
    THEN [f EXCEPT !.pc = "inflight", !.attempt = @ + 1, !.wait = 0,
                   !.posts = @ + 1, !.conns = Append(@, f.session)]
    ELSE [f EXCEPT !.pc = "raised", !.wait = 0,
                   !.exc = Exc("Exception", MsgMaxRetries)]

\* the sleep ends: `continue` takes the next attempt of the range, or leaves
\* the loop when the range is used up
WakeCall(f) ==
    IF f.attempt + 1 < f.max_retries
    THEN [f EXCEPT !.pc = "inflight", !.attempt = @ + 1, !.wait = 0,
                   !.posts = @ + 1, !.conns = Append(@, f.session)]
    ELSE [f EXCEPT !.pc = "raised", !.wait = 0,
                   !.exc = Exc("Exception", MsgMaxRetries)]

-----------------------------------------------------------------------------
(* A caller that awaits chat_completion directly *)

IdleReq == [kind |-> "none"]

DirectReq == [kind |-> "direct"]

\* await claude_client.chat_completion(messages, system_prompt, max_retries)
DirectCall(p, max_retries) ==
    /\ req[p] = IdleReq
    /\ req' = [req EXCEPT ![p] = DirectReq]
    /\ cc' = [cc EXCEPT ![p] = BeginCall(client, max_retries)]
    /\ client' = GetSession(client)
    /\ UNCHANGED <<mapping_sessions, uploaded_files_data>>

DirectReply(p, o) ==
    /\ req[p] = DirectReq
    /\ cc[p].pc = "inflight"
    /\ cc' = [cc EXCEPT ![p] = ReplyCall(cc[p], o)]
    /\ UNCHANGED <<client, req, mapping_sessions, uploaded_files_data>>

DirectWake(p) ==
    /\ req[p] = DirectReq
    /\ cc[p].pc = "sleeping"
    /\ cc' = [cc EXCEPT ![p] = WakeCall(cc[p])]
    /\ UNCHANGED <<client, req, mapping_sessions, uploaded_files_data>>

\* the caller has its text or its exception; the frame is gone
DirectDone(p) ==
    /\ req[p] = DirectReq
    /\ cc[p].pc \in {"returned", "raised"}
    /\ req' = [req EXCEPT ![p] = IdleReq]
    /\ cc' = [cc EXCEPT ![p] = IdleCall]
    /\ UNCHANGED <<client, mapping_sessions, uploaded_files_data>>

\* the most connections a run creates
MaxConnections == 2

\* close(), which the shutdown hook awaits: the connection is closed and
\* self.session keeps referring to it
Close(p) ==
    /\ req[p] = IdleReq
    /\ client.session # NoSession
    /\ client' = [client EXCEPT !.closed = @ \cup {client.session}]
    /\ UNCHANGED <<cc, req, mapping_sessions, uploaded_files_data>>

\* close_session() up to its await: the connection is closed
CloseSessionBegin(p) ==
    /\ req[p] = IdleReq
    /\ client.session # NoSession
    /\ client.created < MaxConnections
    /\ client' = [client EXCEPT !.closed = @ \cup {client.session}]
    /\ req' = [req EXCEPT ![p] = [kind |-> "close_session", pc |-> "closing"]]
    /\ UNCHANGED <<cc, mapping_sessions, uploaded_files_data>>

\* close_session() after its await: self.session = None
CloseSessionEnd(p) ==
    /\ req[p].kind = "close_session"
    /\ client' = [client EXCEPT !.session = NoSession]
    /\ req' = [req EXCEPT ![p] = IdleReq]
    /\ UNCHANGED <<cc, mapping_sessions, uploaded_files_data>>

\* what a POST on a closed connection ends in: aiohttp raises RuntimeError
MsgSessionClosed == << "Session is closed" >>

-----------------------------------------------------------------------------
(* ClaudeAPIClient.parse_claude_response: the four re.search calls over a  *)
(* token text, with re.IGNORECASE                                          *)

NL == "\n"

\* \s
IsSpace(t) == t \in {" ", NL, "\t"}

\* \d
IsDigit(t) == t \in {"0", "1", "2", "3", "4", "5", "6", "7", "8", "9"}

DigitVal(t) ==
    CASE t = "0" -> 0 [] t = "1" -> 1 [] t = "2" -> 2 [] t = "3" -> 3
      [] t = "4" -> 4 [] t = "5" -> 5 [] t = "6" -> 6 [] t = "7" -> 7
      [] t = "8" -> 8 [] OTHER -> 9

\* the label a token spells, whatever its letter case
LabelOf(t) ==
    CASE t \in {"MAPPING:", "mapping:", "Mapping:"} -> "MAPPING:"
      [] t \in {"CONFIDENCE:", "confidence:", "Confidence:"} -> "CONFIDENCE:"
      [] t \in {"REASONING:", "reasoning:", "Reasoning:"} -> "REASONING:"
      [] t \in {"ALTERNATIVES:", "alternatives:", "Alternatives:"} -> "ALTERNATIVES:"
      [] OTHER -> ""

SetMin(S) == CHOOSE x \in S : \A y \in S : x <= y

SetMax(S) == CHOOSE x \in S : \A y \in S : x >= y

Slice(s, a, b) == [i \in 1..(b - a + 1) |-> s[a + i - 1]]

\* [^\n]+ from index j: the last index of the run of tokens that are no line break
LineEnd(s, j) ==
    SetMax({k \in j..Len(s) : \A m \in j..k : s[m] # NL})

\* \d+ from index j: the last index of the run of digits
DigitsEnd(s, j) ==
    SetMax({k \in j..Len(s) : \A m \in j..k : IsDigit(s[m])})

NoMatch == [found |-> FALSE, from |-> 0, to |-> 0]

Match(a, b) == [found |-> TRUE, from |-> a, to |-> b]

\* \s*([^\n]+) tried at index i: the greedy \s* skips every blank and line
\* break; when nothing else is left it gives back blanks until [^\n]+ can take one
LineGroupAt(s, i) ==
    LET rest == i..Len(s)
        solid == {j \in rest : ~IsSpace(s[j])}
        blank == {j \in rest : s[j] # NL}
    IN  IF solid # {}
        THEN Match(SetMin(solid), LineEnd(s, SetMin(solid)))
        ELSE IF blank # {}
             THEN Match(SetMax(blank), LineEnd(s, SetMax(blank)))
             ELSE NoMatch

\* faulty variant: the group of the confidence pattern is [^\n]+, as in the others
DigitGroupAt_WholeLine(s, i) ==
    LET solid == {j \in i..Len(s) : ~IsSpace(s[j])}
    IN  IF solid # {}
        THEN Match(SetMin(solid), LineEnd(s, SetMin(solid)))
        ELSE NoMatch

\* \s*(\d+) tried at index i
DigitGroupAt(s, i) ==
    LET solid == {j \in i..Len(s) : ~IsSpace(s[j])}
    IN  IF solid # {} /\ IsDigit(s[SetMin(solid)])
        THEN Match(SetMin(solid), DigitsEnd(s, SetMin(solid)))
        ELSE NoMatch

\* (?:\n(?!ALTERNATIVES:)[^\n]+)* after a group that ends at index b
RECURSIVE MoreLines(_, _)
MoreLines(s, b) ==
    IF /\ b + 2 <= Len(s)
       /\ s[b + 1] = NL
       /\ s[b + 2] # NL
       /\ LabelOf(s[b + 2]) # "ALTERNATIVES:"
    THEN MoreLines(s, LineEnd(s, b + 2))
    ELSE b

\* \s*([^\n]+(?:\n(?!ALTERNATIVES:)[^\n]+)*) tried at index i
LinesGroupAt(s, i) ==
    LET first == LineGroupAt(s, i)
    IN  IF first.found THEN Match(first.from, MoreLines(s, first.to)) ELSE NoMatch

\* faulty variant: the pattern takes the value after whichever label comes first
SearchLine_AnyLabel(s, label) ==
    LET hits == {i \in 1..Len(s) : LabelOf(s[i]) # "" /\ LineGroupAt(s, i + 1).found}
    IN  IF hits = {} THEN NoMatch ELSE LineGroupAt(s, SetMin(hits) + 1)

\* re.search(label + r'\s*([^\n]+)'): the leftmost occurrence of the label,
\* anywhere in the text, after which the group matches
SearchLine(s, label) ==
    LET hits == {i \in 1..Len(s) : LabelOf(s[i]) = label /\ LineGroupAt(s, i + 1).found}
    IN  IF hits = {} THEN NoMatch ELSE LineGroupAt(s, SetMin(hits) + 1)

\* re.search(label + r'\s*(\d+)')
SearchDigits(s, label) ==
    LET hits == {i \in 1..Len(s) : LabelOf(s[i]) = label /\ DigitGroupAt(s, i + 1).found}
    IN  IF hits = {} THEN NoMatch ELSE DigitGroupAt(s, SetMin(hits) + 1)

\* re.search(label + r'\s*([^\n]+(?:\n(?!ALTERNATIVES:)[^\n]+)*)')
SearchLines(s, label) ==
    LET hits == {i \in 1..Len(s) : LabelOf(s[i]) = label /\ LinesGroupAt(s, i + 1).found}
    IN  IF hits = {} THEN NoMatch ELSE LinesGroupAt(s, SetMin(hits) + 1)

Group1(s, m) == Slice(s, m.from, m.to)

\* str.strip()
Strip(s) ==
    LET solid == {j \in 1..Len(s) : ~IsSpace(s[j])}
    IN  IF solid = {} THEN <<>> ELSE Slice(s, SetMin(solid), SetMax(solid))

\* int() of a run of digits
RECURSIVE ToInt(_)
ToInt(s) ==
    IF Len(s) = 0 THEN 0
    ELSE 10 * ToInt(Slice(s, 1, Len(s) - 1)) + DigitVal(s[Len(s)])

\* str.split(',')
RECURSIVE Split(_)
Split(s) ==
    LET commas == {j \in 1..Len(s) : s[j] = ","}
    IN  IF commas = {} THEN <<s>>
        ELSE <<Slice(s, 1, SetMin(commas) - 1)>>
                 \o Split(Slice(s, SetMin(commas) + 1, Len(s)))

\* faulty variant: the comparison with 'none' is made without lower()
KeepAlternative_CaseSensitive(alt) == Strip(alt) # <<>> /\ Strip(alt) # <<"none">>

\* `if alt.strip() and alt.strip().lower() != 'none'`
KeepAlternative(alt) == Strip(alt) # <<>> /\ Lower(Strip(alt)) # <<"none">>

\* [alt.strip() for alt in parts if ...]
RECURSIVE StrippedKept(_)
StrippedKept(parts) ==
    IF Len(parts) = 0 THEN <<>>
    ELSE (IF KeepAlternative(parts[1]) THEN <<Strip(parts[1])>> ELSE <<>>)
             \o StrippedKept(Tail(parts))

AlternativesOf(group) == StrippedKept(Split(group))

parse_claude_response(response_text) ==
    LET mapping == SearchLine(response_text, "MAPPING:")
        confidence == SearchDigits(response_text, "CONFIDENCE:")
        reasoning == SearchLines(response_text, "REASONING:")
        alternatives == SearchLine(response_text, "ALTERNATIVES:")
    IN  [mapping |-> IF mapping.found THEN Strip(Group1(response_text, mapping))
                     ELSE <<"UNKNOWN">>,
         confidence |-> IF confidence.found THEN ToInt(Group1(response_text, confidence))
                        ELSE 0,
         reasoning |-> IF reasoning.found THEN Strip(Group1(response_text, reasoning))
                       ELSE <<"No reasoning provided">>,
         alternatives |-> IF alternatives.found
                          THEN AlternativesOf(Group1(response_text, alternatives))
                          ELSE <<>>,
         raw_response |-> response_text]

\* int(s) raises ValueError unless s is a run of digits
IntRaises(s) == Len(s) = 0 \/ \E i \in 1..Len(s) : ~IsDigit(s[i])

\* parse_claude_response raises: every .group(1) is guarded by `if m else`,
\* which leaves int() as the one call that can raise
ParseRaises(response_text) ==
    LET confidence == SearchDigits(response_text, "CONFIDENCE:")
    IN  confidence.found /\ IntRaises(Group1(response_text, confidence))

-----------------------------------------------------------------------------
(* A caller of parse_claude_response on a completion text *)

\* the lines the completion texts are made of: the four labelled lines, an
\* ALTERNATIVES: line without a value, a line of plain text, a blank line and
\* a line that has a label in its middle
Lines ==
    { << "MAPPING:", " ", "E101" >>,
      << "confidence:", " ", "9", "5", "%" >>,
      << "REASONING:", " ", "cash" >>,
      << "ALTERNATIVES:", " ", "E102", ",", " ", "None", "," >>,
      << "ALTERNATIVES:" >>,
      << "note" >>,
      << >>,
      << "see", " ", "mapping:", " ", "x" >> }

\* '\n'.join(ls)
RECURSIVE Join(_)
Join(ls) ==
    IF Len(ls) = 0 THEN <<>>
    ELSE IF Len(ls) = 1 THEN ls[1]
    ELSE ls[1] \o <<NL>> \o Join(Tail(ls))

ParseTexts ==
    {Join(ls) : ls \in UNION {[1..n -> Lines] : n \in 0..MaxLines}} \cup Texts

\* self.parse_claude_response(response_text), from its call to its return or raise
ParseCall(p, response_text) ==
    /\ req[p] = IdleReq
    /\ req' = [req EXCEPT ![p] =
                 [kind |-> "parse", text |-> response_text,
                  pc |-> IF ParseRaises(response_text) THEN "raised" ELSE "returned",
                  result |-> parse_claude_response(response_text)]]
    /\ UNCHANGED <<client, cc, mapping_sessions, uploaded_files_data>>

\* the caller has taken the result
ParseDone(p) ==
    /\ req[p].kind = "parse"
    /\ req' = [req EXCEPT ![p] = IdleReq]
    /\ UNCHANGED <<client, cc, mapping_sessions, uploaded_files_data>>

-----------------------------------------------------------------------------
(* ClaudeAPIClient.map_account and the handler map_accounts *)

\* HTTPException(status_code=..., detail=...)
HTTPException(status_code, detail) ==
    [type |-> "HTTPException", msg |-> detail, status_code |-> status_code]

\* str(e): Starlette prints an HTTPException as "<status_code>: <detail>"
Str(e) ==
    IF e.type = "HTTPException"
    THEN <<StatusStr(e.status_code), ": ">> \o e.msg
    ELSE e.msg

\* map_account's `except Exception as e` around chat_completion and the parser
MapAccountError(e) ==
    HTTPException(StatusInternalError, << "API call failed: " >> \o Str(e))

\* faulty variant: the confidence is kept as a whole number of tens
MappingResultOf_RoundsConfidence(source_account, claude_result) ==
    [source_account_code |-> source_account.account_code,
     target_account_code |-> claude_result.mapping,
     confidence_score |-> (claude_result.confidence \div 10) * 10,
     reasoning |-> claude_result.reasoning,
     alternatives |-> claude_result.alternatives]

\* MappingResult(...) built from the parser's dict; processing_time is wall
\* clock and is left out
MappingResultOf(source_account, claude_result) ==
    [source_account_code |-> source_account.account_code,
     target_account_code |-> claude_result.mapping,
     confidence_score |-> claude_result.confidence,
     reasoning |-> claude_result.reasoning,
     alternatives |-> claude_result.alternatives]

\* faulty variant: the threshold itself does not count as high confidence
HighConfidenceCount_Strict(results, threshold) ==
    Cardinality({i \in 1..Len(results) : results[i].confidence_score > threshold})

\* len([r for r in results if r.confidence_score >= threshold])
HighConfidenceCount(results, threshold) ==
    Cardinality({i \in 1..Len(results) : results[i].confidence_score >= threshold})

\* sum(r.confidence_score for r in results)
RECURSIVE SumConfidence(_)
SumConfidence(results) ==
    IF Len(results) = 0 THEN 0
    ELSE results[1].confidence_score + SumConfidence(Tail(results))

\* faulty variant: the mean is cut to one decimal instead of rounded
RoundTenths_Truncates(num, den) == (10 * num) \div den

\* round(num / den, 1) in tenths: the nearest tenth, a tie going to the even
\* one (the quotients of the model that tie are exact binary fractions)
RoundTenths(num, den) ==
    LET q == (10 * num) \div den
        r == (10 * num) % den
    IN  CASE 2 * r < den -> q
          [] 2 * r > den -> q + 1
          [] OTHER -> IF q % 2 = 0 THEN q ELSE q + 1

\* avg_confidence, then round(avg_confidence, 1); the value is in tenths
AverageConfidence(results) ==
    IF Len(results) > 0 THEN RoundTenths(SumConfidence(results), Len(results)) ELSE 0

\* `r.confidence_score >= None` raises TypeError as soon as one result is compared
SummaryRaises(results, threshold) == Len(results) > 0 /\ threshold = None

MsgCompare == << "'>=' not supported between instances of 'int' and 'NoneType'" >>

SummaryOf(results, threshold) ==
    [total_mappings |-> Len(results),
     high_confidence_mappings |->
        IF Len(results) = 0 THEN 0 ELSE HighConfidenceCount(results, ValueOf(threshold)),
     average_confidence |-> AverageConfidence(results),
     confidence_threshold |-> threshold]

\* mapping_sessions[session_id] = {...} at the start of a batch
NewSession(request) ==
    [status |-> "processing",
     total_accounts |-> Len(request.source_accounts),
     processed_accounts |-> 0,
     results |-> <<>>]

\* the frame of a running map_accounts: i is the loop index, calls counts the
\* map_account calls the batch has made, delay is the sleep it is in, delays
\* lists the sleeps the loop has taken between calls, texts the completion
\* texts its calls have returned
NewMapReq(request, session_id) ==
    [kind |-> "map", pc |-> "calling", session_id |-> session_id,
     request |-> request, i |-> 0, results |-> <<>>, calls |-> 0,
     delay |-> 0, delays |-> <<>>, texts |-> <<>>, reply |-> [kind |-> "none"]]

\* faulty variant: the except clause drops the record of the failed session
MapFail_RemovesSession(fr, ms, e, f) ==
    [fr |-> [fr EXCEPT !.pc = "failed",
                       !.reply = [kind |-> "error",
                                  status_code |-> StatusInternalError,
                                  detail |-> << "Mapping process failed: " >> \o Str(e)]],
     ms |-> [x \in DOMAIN ms \ {fr.session_id} |-> ms[x]],
     call |-> f]

\* faulty variant: the except clause raises without marking the session failed
MapFail_LeavesStatus(fr, ms, e, f) ==
    [fr |-> [fr EXCEPT !.pc = "failed",
                       !.reply = [kind |-> "error",
                                  status_code |-> StatusInternalError,
                                  detail |-> << "Mapping process failed: " >> \o Str(e)]],
     ms |-> ms,
     call |-> f]

\* the handler's `except Exception as e`; f is the frame of the call that
\* raised, kept for inspection until the error has gone to the caller
MapFail(fr, ms, e, f) ==
    [fr |-> [fr EXCEPT !.pc = "failed",
                       !.reply = [kind |-> "error",
                                  status_code |-> StatusInternalError,
                                  detail |-> << "Mapping process failed: " >> \o Str(e)]],
     ms |-> [ms EXCEPT ![fr.session_id] =
                [x \in DOMAIN @ \cup {"error"} |->
                    CASE x = "status" -> "failed"
                      [] x = "error" -> Str(e)
                      [] OTHER -> @[x]]],
     call |-> f]

\* after the loop: the summary, the session update and the MappingResponse
MapFinish(fr, ms) ==
    IF SummaryRaises(fr.results, fr.request.confidence_threshold)
    THEN MapFail(fr, ms, Exc("TypeError", MsgCompare), IdleCall)
    ELSE LET summary == SummaryOf(fr.results, fr.request.confidence_threshold)
         IN  [fr |-> [fr EXCEPT !.pc = "responded",
                                !.reply = [kind |-> "response",
                                           session_id |-> fr.session_id,
                                           results |-> fr.results,
                                           summary |-> summary,
                                           status |-> "completed"]],
              ms |-> [ms EXCEPT ![fr.session_id] =
                        [x \in DOMAIN @ \cup {"summary"} |->
                            CASE x = "status" -> "completed"
                              [] x = "summary" -> summary
                              [] OTHER -> @[x]]],
              call |-> IdleCall]

\* faulty variant: the new result is put in front of the earlier ones
MapRecord_Prepends(fr, ms, claude_result) ==
    LET source_account == fr.request.source_accounts[fr.i + 1]
        result == MappingResultOf(source_account, claude_result)
        fr1 == [fr EXCEPT !.results = <<result>> \o @,
                          !.texts = Append(@, claude_result.raw_response)]
        ms1 == [ms EXCEPT ![fr.session_id].processed_accounts = fr.i + 1,
                          ![fr.session_id].results = <<result>> \o @]
    IN  IF fr.i < Len(fr.request.source_accounts) - 1
        THEN [fr |-> [fr1 EXCEPT !.pc = "delay", !.delay = InterCallDelay,
                                 !.delays = Append(@, InterCallDelay)],
              ms |-> ms1, call |-> IdleCall]
        ELSE MapFinish(fr1, ms1)

\* faulty variant: the loop sleeps one second between calls, the earlier value
MapRecord_OneSecond(fr, ms, claude_result) ==
    LET source_account == fr.request.source_accounts[fr.i + 1]
        result == MappingResultOf(source_account, claude_result)
        fr1 == [fr EXCEPT !.results = Append(@, result),
                          !.texts = Append(@, claude_result.raw_response)]
        ms1 == [ms EXCEPT ![fr.session_id].processed_accounts = fr.i + 1,
                          ![fr.session_id].results = Append(@, result)]
    IN  IF fr.i < Len(fr.request.source_accounts) - 1
        THEN [fr |-> [fr1 EXCEPT !.pc = "delay", !.delay = 1,
                                 !.delays = Append(@, 1)],
              ms |-> ms1, call |-> IdleCall]
        ELSE MapFinish(fr1, ms1)

\* faulty variant: the progress of the batch is written to every session that
\* is being processed
MapRecord_WritesEverySession(fr, ms, claude_result) ==
    LET source_account == fr.request.source_accounts[fr.i + 1]
        result == MappingResultOf(source_account, claude_result)
        fr1 == [fr EXCEPT !.results = Append(@, result),
                          !.texts = Append(@, claude_result.raw_response)]
        ms1 == [sid \in DOMAIN ms |->
                    IF ms[sid].status = "processing"
                    THEN [ms[sid] EXCEPT !.processed_accounts = fr.i + 1,
                                         !.results = Append(@, result)]
                    ELSE ms[sid]]
    IN  IF fr.i < Len(fr.request.source_accounts) - 1
        THEN [fr |-> [fr1 EXCEPT !.pc = "delay", !.delay = InterCallDelay,
                                 !.delays = Append(@, InterCallDelay)],
              ms |-> ms1, call |-> IdleCall]
        ELSE MapFinish(fr1, ms1)

\* map_account returned claude_result for account i: the rest of the loop body
MapRecord(fr, ms, claude_result) ==
    LET source_account == fr.request.source_accounts[fr.i + 1]
        result == MappingResultOf(source_account, claude_result)
        fr1 == [fr EXCEPT !.results = Append(@, result),
                          !.texts = Append(@, claude_result.raw_response)]
        ms1 == [ms EXCEPT ![fr.session_id].processed_accounts = fr.i + 1,
                          ![fr.session_id].results = Append(@, result)]
    IN  IF fr.i < Len(fr.request.source_accounts) - 1
        THEN [fr |-> [fr1 EXCEPT !.pc = "delay", !.delay = InterCallDelay,
                                 !.delays = Append(@, InterCallDelay)],
              ms |-> ms1, call |-> IdleCall]
        ELSE MapFinish(fr1, ms1)

\* faulty variant: an account whose call raised is recorded as unmapped and the batch goes on
MapAdvance_SkipsFailed(fr, ms, f) ==
    CASE f.pc = "returned" -> MapRecord(fr, ms, parse_claude_response(f.text))
      [] f.pc = "raised" ->
            [MapRecord(fr, ms, parse_claude_response(<<>>)) EXCEPT !.call = f]
      [] OTHER -> [fr |-> fr, ms |-> ms, call |-> f]

\* map_accounts resumed with the frame f of map_account's chat_completion:
\* still awaiting, returned a text, or raised
MapAdvance(fr, ms, f) ==
    CASE f.pc = "returned" -> MapRecord(fr, ms, parse_claude_response(f.text))
      [] f.pc = "raised" -> MapFail(fr, ms, MapAccountError(f.exc), f)
      [] OTHER -> [fr |-> fr, ms |-> ms, call |-> f]

\* the loop reaches account i: map_account is awaited, which sends its first POST
MapCallAccount(fr, ms, c) ==
    MapAdvance([fr EXCEPT !.pc = "calling", !.calls = @ + 1, !.delay = 0], ms,
               BeginCall(c, DefaultMaxRetries))

\* POST /map-accounts: the handler from its entry to its first await
MapStart(p, request, session_id) ==
    /\ req[p] = IdleReq
    /\ session_id \notin DOMAIN mapping_sessions
    /\ LET ms == DictSet(mapping_sessions, session_id, NewSession(request))
           fr == NewMapReq(request, session_id)
           r == IF Len(request.source_accounts) = 0
                THEN MapFinish(fr, ms)
                ELSE MapCallAccount(fr, ms, client)
       IN  /\ req' = [req EXCEPT ![p] = r.fr]
           /\ mapping_sessions' = r.ms
           /\ cc' = [cc EXCEPT ![p] = r.call]
           /\ client' = IF Len(request.source_accounts) = 0
                        THEN client ELSE GetSession(client)
    /\ UNCHANGED uploaded_files_data

\* the POST of the batch's current account ends in outcome o
MapReply(p, o) ==
    /\ req[p].kind = "map" /\ req[p].pc = "calling"
    /\ cc[p].pc = "inflight"
    /\ LET r == MapAdvance(req[p], mapping_sessions, ReplyCall(cc[p], o))
       IN  /\ req' = [req EXCEPT ![p] = r.fr]
           /\ mapping_sessions' = r.ms
           /\ cc' = [cc EXCEPT ![p] = r.call]
    /\ UNCHANGED <<client, uploaded_files_data>>

\* the backoff sleep of the current account's call ends
MapWake(p) ==
    /\ req[p].kind = "map" /\ req[p].pc = "calling"
    /\ cc[p].pc = "sleeping"
    /\ LET r == MapAdvance(req[p], mapping_sessions, WakeCall(cc[p]))
       IN  /\ req' = [req EXCEPT ![p] = r.fr]
           /\ mapping_sessions' = r.ms
           /\ cc' = [cc EXCEPT ![p] = r.call]
    /\ UNCHANGED <<client, uploaded_files_data>>

\* await asyncio.sleep(3) ends: the loop takes the next account
MapDelayDone(p) ==
    /\ req[p].kind = "map" /\ req[p].pc = "delay"
    /\ LET r == MapCallAccount([req[p] EXCEPT !.i = @ + 1], mapping_sessions, client)
       IN  /\ req' = [req EXCEPT ![p] = r.fr]
           /\ mapping_sessions' = r.ms
           /\ cc' = [cc EXCEPT ![p] = r.call]
    /\ client' = GetSession(client)
    /\ UNCHANGED uploaded_files_data

\* the response or the error has gone to the HTTP caller
MapDone(p) ==
    /\ req[p].kind = "map" /\ req[p].pc \in {"responded", "failed"}
    /\ req' = [req EXCEPT ![p] = IdleReq]
    /\ cc' = [cc EXCEPT ![p] = IdleCall]
    /\ UNCHANGED <<client, mapping_sessions, uploaded_files_data>>

-----------------------------------------------------------------------------
(* The handler upload_accounts *)

\* str.endswith: the last token of a file name is its extension, letter case kept
EndsWith(name, suffixes) == Len(name) > 0 /\ name[Len(name)] \in suffixes

MsgUnsupported == << "Unsupported file format. Use CSV or Excel." >>

MsgDecode == << "'utf-8' codec can't decode byte 0xff in position 0: invalid start byte" >>

MsgTokenize == << "Error tokenizing data. C error: Expected 1 fields in line 3, saw 2" >>

MsgExcel == << "Excel file format cannot be determined, you must specify an engine manually." >>

Raised(e) == [raised |-> TRUE, exc |-> e, rows |-> <<>>]

Table(rows) == [raised |-> FALSE, exc |-> Exc("", <<>>), rows |-> rows]

\* the try body up to the DataFrame: content.decode, pd.read_csv or
\* pd.read_excel by the file name, HTTPException(400) for any other name
ReadTable(file) ==
    IF EndsWith(file.filename, {".csv"})
    THEN CASE file.content.kind = "undecodable" ->
                  Raised(Exc("UnicodeDecodeError", MsgDecode))
           [] file.content.kind = "malformed" ->
                  Raised(Exc("ParserError", MsgTokenize))
           [] OTHER -> Table(file.content.rows)
    ELSE IF EndsWith(file.filename, {".xlsx", ".xls"})
         THEN IF file.content.kind = "table"
              THEN Table(file.content.rows)
              ELSE Raised(Exc("ValueError", MsgExcel))
         ELSE Raised(HTTPException(StatusBadRequest, MsgUnsupported))

\* AccountData(...) for every row of the DataFrame
AccountsOf(rows) == [i \in 1..Len(rows) |-> [account_code |-> rows[i].Account_Code]]

\* the entry stored for an upload; upload_time is wall clock and is left out
FileData(file, rows) ==
    [filename |-> file.filename,
     accounts |-> AccountsOf(rows),
     account_count |-> Len(rows),
     raw_data |-> rows]

\* faulty variant: the store is replaced by a dict that holds the new entry only
StoreUpload_Replaces(ufd, session_id, data) == DictSet(EmptyDict, session_id, data)

\* uploaded_files_data[session_id] = {...}
StoreUpload(ufd, session_id, data) == DictSet(ufd, session_id, data)

\* faulty variant: the entry is stored before the file has been read as a table
upload_accounts_StoresFirst(ufd, file, session_id) ==
    LET t == ReadTable(file)
    IN  IF t.raised
        THEN [ufd |-> StoreUpload(ufd, session_id, FileData(file, <<>>)),
              reply |-> [kind |-> "error", status_code |-> StatusInternalError,
                         detail |-> << "File processing error: " >> \o Str(t.exc)]]
        ELSE [ufd |-> StoreUpload(ufd, session_id, FileData(file, t.rows)),
              reply |-> [kind |-> "response", status |-> "success",
                         session_id |-> session_id,
                         accounts_count |-> Len(t.rows),
                         accounts |-> AccountsOf(t.rows)]]

\* the handler after `content = await file.read()`: it has no other await
upload_accounts(ufd, file, session_id) ==
    LET t == ReadTable(file)
    IN  IF t.raised
        THEN [ufd |-> ufd,
              reply |-> [kind |-> "error", status_code |-> StatusInternalError,
                         detail |-> << "File processing error: " >> \o Str(t.exc)]]
        ELSE [ufd |-> StoreUpload(ufd, session_id, FileData(file, t.rows)),
              reply |-> [kind |-> "response", status |-> "success",
                         session_id |-> session_id,
                         accounts_count |-> Len(t.rows),
                         accounts |-> AccountsOf(t.rows)]]

\* POST /upload-accounts; uuid4 gives an id the store does not hold
UploadAccounts(p, file, session_id) ==
    /\ req[p] = IdleReq
    /\ session_id \notin DOMAIN uploaded_files_data
    /\ LET r == upload_accounts(uploaded_files_data, file, session_id)
       IN  /\ req' = [req EXCEPT ![p] =
                        [kind |-> "upload", pc |-> "done", file |-> file,
                         session_id |-> session_id, reply |-> r.reply]]
           /\ uploaded_files_data' = r.ufd
    /\ UNCHANGED <<client, cc, mapping_sessions>>

\* the files of the model
FileNames ==
    { << "accounts", ".csv" >>, << "accounts", ".xlsx" >>, << "old", ".xls" >>,
      << "accounts", ".txt" >>, << "ACCOUNTS", ".CSV" >> }

FileContents ==
    { [kind |-> "table", rows |-> << [Account_Code |-> "1010"] >>],
      [kind |-> "table", rows |-> << >>],
      [kind |-> "undecodable", rows |-> << >>],
      [kind |-> "malformed", rows |-> << >>] }

Files == [filename : FileNames, content : FileContents]

UploadIds == {"u1", "u2"}

-----------------------------------------------------------------------------
(* The handlers get_mapping_status and receive_feedback *)

\* GET /mapping-status/{session_id}: the handler has no await
get_mapping_status(ms, session_id) ==
    IF session_id \notin DOMAIN ms
    THEN [kind |-> "error", status_code |-> StatusNotFound,
          detail |-> << "Session not found" >>]
    ELSE [kind |-> "response", body |-> ms[session_id]]

GetMappingStatus(p, session_id) ==
    /\ req[p] = IdleReq
    /\ req' = [req EXCEPT ![p] =
                 [kind |-> "status", pc |-> "done", session_id |-> session_id,
                  reply |-> get_mapping_status(mapping_sessions, session_id)]]
    /\ UNCHANGED <<client, cc, mapping_sessions, uploaded_files_data>>

\* POST /feedback: the changes are counted and nothing is stored
ReceiveFeedback(p, changes) ==
    /\ req[p] = IdleReq
    /\ req' = [req EXCEPT ![p] =
                 [kind |-> "feedback", pc |-> "done",
                  reply |-> [kind |-> "response", status |-> "received",
                             changes_count |-> Len(changes)]]]
    /\ UNCHANGED <<client, cc, mapping_sessions, uploaded_files_data>>

\* the answer of a handler without awaits has gone to the HTTP caller
HandlerDone(p) ==
    /\ req[p].kind \in {"upload", "status", "feedback"}
    /\ req' = [req EXCEPT ![p] = IdleReq]
    /\ UNCHANGED <<client, cc, mapping_sessions, uploaded_files_data>>

-----------------------------------------------------------------------------
(* The handler chat_with_claude and ClaudeAPIClient.analyze_uploaded_data *)

file_analysis_keywords ==
    {"map", "mapping", "analyze", "analysis", "suggest", "recommend", "accounts", "data"}

\* any(keyword in message.lower() for keyword in file_analysis_keywords)
HasKeyword(message) ==
    \E i \in 1..Len(message) : LowerTok(message[i]) \in file_analysis_keywords

\* `is_file_query and session_id in uploaded_files_data`
IsFileQuery(ufd, request) ==
    /\ request.session_id # None
    /\ HasKeyword(request.message)
    /\ ValueOf(request.session_id) \in DOMAIN ufd

MsgEmpty == << "Message cannot be empty" >>

PrefixSorry == << "Sorry, I encountered an error analyzing the uploaded data: " >>

PrefixChat == << "Chat processing failed: " >>

\* the handler's `except Exception as e`
ChatFail(fr, e, f) ==
    [fr |-> [fr EXCEPT !.pc = "failed",
                       !.reply = [kind |-> "error",
                                  status_code |-> StatusInternalError,
                                  detail |-> PrefixChat \o Str(e)]],
     call |-> f]

\* return {"response": response, "status": "success"}
ChatRespond(fr, response, f) ==
    [fr |-> [fr EXCEPT !.pc = "responded",
                       !.reply = [kind |-> "response", response |-> response,
                                  status |-> "success"]],
     call |-> f]

\* the handler resumed with the frame f of its chat_completion: on the
\* file-analysis path analyze_uploaded_data catches what the call raises and
\* returns a text; on the generic path the exception reaches the handler
ChatAdvance(fr, f) ==
    CASE f.pc = "returned" -> ChatRespond(fr, f.text, f)
      [] f.pc = "raised" /\ fr.path = "analysis" ->
            ChatRespond(fr, PrefixSorry \o Str(f.exc), f)
      [] f.pc = "raised" /\ fr.path = "generic" -> ChatFail(fr, f.exc, f)
      [] OTHER -> [fr |-> fr, call |-> f]

\* the frame of a running chat_with_claude: found tells whether the uploaded
\* file of the request's session_id was found for the system prompt
NewChatReq(ufd, request) ==
    [kind |-> "chat", pc |-> "calling", request |-> request,
     found |-> (request.session_id # None
                    /\ ValueOf(request.session_id) \in DOMAIN ufd),
     path |-> IF IsFileQuery(ufd, request) THEN "analysis" ELSE "generic",
     reply |-> [kind |-> "none"]]

\* the handler from its entry to its first await, or to its end when the
\* message is empty
chat_with_claude(ufd, request, c) ==
    IF Strip(request.message) = <<>>
    THEN ChatFail(NewChatReq(ufd, request),
                  HTTPException(StatusBadRequest, MsgEmpty), IdleCall)
    ELSE ChatAdvance(NewChatReq(ufd, request), BeginCall(c, DefaultMaxRetries))

\* POST /chat
ChatStart(p, request) ==
    /\ req[p] = IdleReq
    /\ LET r == chat_with_claude(uploaded_files_data, request, client)
       IN  /\ req' = [req EXCEPT ![p] = r.fr]
           /\ cc' = [cc EXCEPT ![p] = r.call]
    /\ client' = IF Strip(request.message) = <<>> THEN client ELSE GetSession(client)
    /\ UNCHANGED <<mapping_sessions, uploaded_files_data>>

\* the POST of the chat's call ends in outcome o
ChatReply(p, o) ==
    /\ req[p].kind = "chat" /\ req[p].pc = "calling"
    /\ cc[p].pc = "inflight"
    /\ LET r == ChatAdvance(req[p], ReplyCall(cc[p], o))
       IN  /\ req' = [req EXCEPT ![p] = r.fr]
           /\ cc' = [cc EXCEPT ![p] = r.call]
    /\ UNCHANGED <<client, mapping_sessions, uploaded_files_data>>

\* the backoff sleep of the chat's call ends
ChatWake(p) ==
    /\ req[p].kind = "chat" /\ req[p].pc = "calling"
    /\ cc[p].pc = "sleeping"
    /\ LET r == ChatAdvance(req[p], WakeCall(cc[p]))
       IN  /\ req' = [req EXCEPT ![p] = r.fr]
           /\ cc' = [cc EXCEPT ![p] = r.call]
    /\ UNCHANGED <<client, mapping_sessions, uploaded_files_data>>

\* the response or the error has gone to the HTTP caller
ChatDone(p) ==
    /\ req[p].kind = "chat" /\ req[p].pc \in {"responded", "failed"}
    /\ req' = [req EXCEPT ![p] = IdleReq]
    /\ cc' = [cc EXCEPT ![p] = IdleCall]
    /\ UNCHANGED <<client, mapping_sessions, uploaded_files_data>>

\* the chat requests of the model
Messages ==
    { << >>, << " " >>, << "hello" >>, << "Analyze", " ", "this" >> }

ChatRequests ==
    [message : Messages, session_id : {None} \cup {Some(u) : u \in UploadIds}]

\* the requests of the model
Codes == {"1010", "2020"}

SourceLists ==
    UNION {[1..n -> {[account_code |-> c] : c \in Codes}] : n \in 0..MaxAccounts}

Thresholds == {Some(DefaultThreshold), Some(70), None}

Requests ==
    [source_accounts : SourceLists, confidence_threshold : Thresholds]

\* what the upstream answers to the POSTs of a batch
BatchOutcomes ==
    {Response(StatusOK, Body(<<TextBlock(t)>>)) : t \in Texts}
        \cup { Response(StatusOK, Body(<<>>)),
               Response(StatusOverloaded, BodyNoKey),
               Response(500, BodyNoKey),
               TimeoutOutcome,
               ErrorOutcome(<< "Service ", "Overloaded" >>) }

-----------------------------------------------------------------------------
(* Specifications *)

Init ==
    /\ client = [session |-> NoSession, created |-> 0, closed |-> {}]
    /\ cc = [p \in Procs |-> IdleCall]
    /\ req = [p \in Procs |-> IdleReq]
    /\ mapping_sessions = EmptyDict
    /\ uploaded_files_data = EmptyDict

\* one caller of chat_completion, with every max_retries up to the bound
NextClient ==
    \/ \E mr \in 0..MaxRetriesBound : DirectCall("p1", mr)
    \/ \E o \in Outcomes : DirectReply("p1", o)
    \/ DirectWake("p1")
    \/ DirectDone("p1")

SpecClient == Init /\ [][NextClient]_vars

\* one map_accounts batch, with every request of the model
NextBatch ==
    \/ \E r \in Requests : MapStart("p1", r, "s1")
    \/ \E o \in BatchOutcomes : MapReply("p1", o)
    \/ MapWake("p1")
    \/ MapDelayDone("p1")
    \/ MapDone("p1")

SpecBatch == Init /\ [][NextBatch]_vars

\* the requests and the upstream answers of the termination check: lists of
\* every length over one account, with and without a threshold
LiveRequests ==
    [source_accounts : {[i \in 1..n |-> [account_code |-> "1010"]] : n \in 0..MaxAccounts},
     confidence_threshold : {Some(DefaultThreshold), None}]

LiveOutcomes ==
    { Response(StatusOK, Body(<<TextBlock(TextFull)>>)),
      Response(StatusOK, Body(<<>>)),
      Response(StatusOverloaded, BodyNoKey),
      TimeoutOutcome }

NextBatchLive ==
    \/ \E r \in LiveRequests : MapStart("p1", r, "s1")
    \/ \E o \in LiveOutcomes : MapReply("p1", o)
    \/ MapWake("p1")
    \/ MapDelayDone("p1")
    \/ MapDone("p1")

\* the event loop resumes a waiting handler: every POST ends (in a reply, an
\* error or a timeout) and every sleep ends
BatchFairness ==
    \A p \in Procs :
        /\ WF_vars(\E o \in LiveOutcomes : MapReply(p, o))
        /\ WF_vars(MapWake(p))
        /\ WF_vars(MapDelayDone(p))

SpecBatchFair == Init /\ [][NextBatchLive]_vars /\ BatchFairness

\* the parser on every text of the model
NextParse ==
    \/ req["p1"] = IdleReq /\ \E t \in ParseTexts : ParseCall("p1", t)
    \/ ParseDone("p1")

SpecParse == Init /\ [][NextParse]_vars

\* two callers of chat_completion at once, in every interleaving
ConcOutcomes ==
    { Response(StatusOK, Body(<<TextBlock(TextFull)>>)),
      Response(StatusOverloaded, BodyNoKey),
      Response(500, BodyNoKey),
      TimeoutOutcome }

NextConc ==
    \E p \in Procs :
        \/ \E mr \in 1..MaxRetriesBound : DirectCall(p, mr)
        \/ \E o \in ConcOutcomes : DirectReply(p, o)
        \/ DirectWake(p)
        \/ DirectDone(p)

SpecConc == Init /\ [][NextConc]_vars

\* two map_accounts batches at once, in every interleaving; uuid4 gives each
\* batch an id no other session has
SessionIds == {"s1", "s2"}

ConcRequests ==
    { [source_accounts |-> << [account_code |-> "1010"], [account_code |-> "2020"] >>,
       confidence_threshold |-> Some(DefaultThreshold)],
      [source_accounts |-> << [account_code |-> "2020"] >>,
       confidence_threshold |-> Some(70)] }

ConcBatchOutcomes ==
    { Response(StatusOK, Body(<<TextBlock(TextFull)>>)),
      Response(StatusOK, Body(<<TextBlock(TextLow)>>)),
      Response(StatusOverloaded, BodyNoKey),
      Response(500, BodyNoKey) }

NextConcBatch ==
    \E p \in Procs :
        \/ \E r \in ConcRequests, sid \in SessionIds : MapStart(p, r, sid)
        \/ \E o \in ConcBatchOutcomes : MapReply(p, o)
        \/ MapWake(p)
        \/ MapDelayDone(p)
        \/ MapDone(p)

SpecConcBatch == Init /\ [][NextConcBatch]_vars

\* one client of the HTTP API that uploads, chats, maps, asks for the status
\* and sends feedback, in any order
NextApp ==
    \/ \E f \in Files, u \in UploadIds : UploadAccounts("p1", f, u)
    \/ \E r \in ChatRequests : ChatStart("p1", r)
    \/ \E o \in ConcBatchOutcomes : ChatReply("p1", o)
    \/ ChatWake("p1")
    \/ ChatDone("p1")
    \/ \E r \in ConcRequests : MapStart("p1", r, "s1")
    \/ \E o \in ConcBatchOutcomes : MapReply("p1", o)
    \/ MapWake("p1")
    \/ MapDelayDone("p1")
    \/ MapDone("p1")
    \/ \E sid \in SessionIds : GetMappingStatus("p1", sid)
    \/ \E changes \in {<< >>, << "1010 -> 101000" >>} : ReceiveFeedback("p1", changes)
    \/ HandlerDone("p1")

SpecApp == Init /\ [][NextApp]_vars

\* one client runs batches while another asks for the status of sessions
NextStatus ==
    \/ \E r \in ConcRequests, sid \in SessionIds : MapStart("p1", r, sid)
    \/ \E o \in ConcBatchOutcomes : MapReply("p1", o)
    \/ MapWake("p1")
    \/ MapDelayDone("p1")
    \/ MapDone("p1")
    \/ \E sid \in SessionIds : GetMappingStatus("p2", sid)
    \/ HandlerDone("p2")

SpecStatus == Init /\ [][NextStatus]_vars

\* two callers of chat_completion while the connection is released with
\* close() or close_session(); a POST on a closed connection ends in the
\* error of the closed connection, any other POST in one of ConcOutcomes
NextClose ==
    \E p \in Procs :
        \/ DirectCall(p, DefaultMaxRetries)
        \/ /\ cc[p].session \notin client.closed
           /\ \E o \in ConcOutcomes : DirectReply(p, o)
        \/ /\ cc[p].session \in client.closed
           /\ DirectReply(p, ErrorOutcome(MsgSessionClosed))
        \/ DirectWake(p)
        \/ DirectDone(p)
        \/ Close(p)
        \/ CloseSessionBegin(p)
        \/ CloseSessionEnd(p)

SpecClose == Init /\ [][NextClose]_vars

-----------------------------------------------------------------------------
(* Vocabulary of the properties of chat_completion *)

Last(s) == s[Len(s)]

Is529(o) == o.kind = "response" /\ o.status = 529

IsTimeout(o) == o.kind = "timeout"

\* a 200 whose first content block carries a text
IsSuccess(o) ==
    /\ o.kind = "response" /\ o.status = 200
    /\ o.body.has_content /\ Len(o.body.content) > 0
    /\ o.body.content[1].has_text

\* a 200 without the 'content' key or with an empty 'content' list
IsEmpty200(o) ==
    /\ o.kind = "response" /\ o.status = 200
    /\ (~o.body.has_content \/ Len(o.body.content) = 0)

\* any failure that is neither a 529 response nor a timeout
IsOtherFailure(o) == ~IsSuccess(o) /\ ~Is529(o) /\ ~IsTimeout(o)

\* the text the failure is reported with names an overload
SaysOverload(o) ==
    \E i \in 1..Len(o.msg) : o.msg[i] \in {"overloaded", "Overloaded", "OVERLOADED", "529"}

\* the frame of a call that is running or has just ended
Running(f) == f.pc # "idle"

\* the call ended at its last reply: no sleep and no POST followed it
FailedAtOnce(f) ==
    /\ f.pc = "raised"
    /\ f.posts = Len(f.replies)
    /\ Len(f.sleeps) = Len(f.replies) - 1

IsSuffix(m, s) ==
    /\ Len(m) <= Len(s)
    /\ \A i \in 1..Len(m) : s[Len(s) - Len(m) + i] = m[i]

-----------------------------------------------------------------------------
(* C1: when every attempt is answered 529, chat_completion never returns a *)
(* text, never POSTs more than max_retries times, and raises only after    *)
(* exactly max_retries POSTs.                                              *)
C1_AllOverloadedFailsAfterMaxRetries ==
    \A p \in Procs :
        LET f == cc[p]
        IN  (Running(f) /\ \A i \in 1..Len(f.replies) : Is529(f.replies[i])) =>
                /\ f.pc # "returned"
                /\ f.posts <= f.max_retries
                /\ (f.pc = "raised" =>
                        f.posts = f.max_retries /\ Len(f.replies) = f.max_retries)

C1_Witness ==
    \E p \in Procs :
        /\ cc[p].pc = "raised"
        /\ cc[p].max_retries = 3
        /\ Len(cc[p].replies) = 3
        /\ \A i \in 1..3 : Is529(cc[p].replies[i])

(* C2: with the default max_retries, replies 529, 529, 200-with-content    *)
(* make the call return the text of the 200 after exactly three POSTs and  *)
(* the two sleeps 2 s and 4 s.                                             *)
C2_TwoOverloadsThenSuccess ==
    \A p \in Procs :
        LET f == cc[p]
        IN  ( /\ f.max_retries = 3
              /\ Len(f.replies) = 3
              /\ Is529(f.replies[1]) /\ Is529(f.replies[2])
              /\ IsSuccess(f.replies[3]) ) =>
                /\ f.pc = "returned"
                /\ f.text = f.replies[3].body.content[1].text
                /\ f.posts = 3
                /\ f.sleeps = <<2, 4>>

C2_Witness ==
    \E p \in Procs :
        /\ cc[p].pc = "returned"
        /\ cc[p].max_retries = 3
        /\ Len(cc[p].replies) = 3
        /\ Is529(cc[p].replies[1]) /\ Is529(cc[p].replies[2])
        /\ cc[p].text = TextLow

(* C3: after a non-final attempt k that ended in a 529 response or in a    *)
(* timeout, the client sleeps 2 * 2^k seconds, the same for both causes.   *)
C3_SameBackoffForOverloadAndTimeout ==
    \A p \in Procs :
        LET f == cc[p]
        IN  ( /\ f.pc = "sleeping"
              /\ (Is529(Last(f.replies)) \/ IsTimeout(Last(f.replies))) ) =>
                f.wait = 2 * (2 ^ f.attempt)

(* C4, as claimed: an attempt that ends in any failure other than a 529    *)
(* response or a timeout ends the call at once, with no sleep and no       *)
(* further POST.                                                           *)
C4_Original_AnyOtherFailureIsFatal ==
    \A p \in Procs :
        LET f == cc[p]
        IN  (Len(f.replies) > 0 /\ IsOtherFailure(Last(f.replies))) =>
                FailedAtOnce(f)

(* C4, amended: an attempt that ends in a failure other than a 529         *)
(* response or a timeout, and whose error text names no overload (neither  *)
(* "overloaded" nor "529"), ends the call at once, with no sleep and no    *)
(* further POST, whatever the attempt number and max_retries are.          *)
C4_OtherFailureNotNamingOverloadIsFatal ==
    \A p \in Procs :
        LET f == cc[p]
        IN  ( /\ Len(f.replies) > 0
              /\ IsOtherFailure(Last(f.replies))
              /\ ~SaysOverload(Last(f.replies)) ) =>
                FailedAtOnce(f)

C4_Witness ==
    \E p \in Procs :
        /\ cc[p].pc = "raised"
        /\ cc[p].max_retries = 3
        /\ Len(cc[p].replies) = 2
        /\ Last(cc[p].replies) = Response(500, BodyNoKey)
        /\ cc[p].exc.msg = PrefixFailed \o MsgStatus(500)

(* C5: a 200 whose body has no 'content' key or an empty 'content' list    *)
(* makes the call raise at once: no retry, no sleep, no text returned.     *)
C5_EmptyContentIsFatal ==
    \A p \in Procs :
        LET f == cc[p]
        IN  (Len(f.replies) > 0 /\ IsEmpty200(Last(f.replies))) =>
                /\ FailedAtOnce(f)
                /\ f.text = <<>>
                /\ f.exc.msg = PrefixFailed \o MsgNoContent

C5_Witness ==
    \E p \in Procs :
        /\ cc[p].pc = "raised"
        /\ cc[p].max_retries = 3
        /\ cc[p].replies = <<Response(529, BodyNoKey), Response(200, Body(<<>>))>>

(* C6: a call that used up its retries on 529 responses and timeouts       *)
(* raises an error whose message ends with the message of the last         *)
(* attempt's failure: the overload message after a 529, the timeout        *)
(* message after a timeout.                                                *)
C6_ExhaustedCarriesLastFailure ==
    \A p \in Procs :
        LET f == cc[p]
        IN  ( /\ Running(f)
              /\ f.max_retries > 0
              /\ Len(f.replies) = f.max_retries
              /\ \A i \in 1..Len(f.replies) :
                    Is529(f.replies[i]) \/ IsTimeout(f.replies[i]) ) =>
                /\ f.pc = "raised"
                /\ Is529(Last(f.replies)) => IsSuffix(MsgOverloaded, f.exc.msg)
                /\ IsTimeout(Last(f.replies)) => IsSuffix(MsgTimeout, f.exc.msg)

C6_Witness ==
    \E p \in Procs :
        /\ cc[p].pc = "raised"
        /\ cc[p].replies = <<Response(529, BodyNoKey), TimeoutOutcome, TimeoutOutcome>>
        /\ cc[p].exc.msg = MsgTimeout

-----------------------------------------------------------------------------
(* Vocabulary of the properties of map_accounts *)

\* the handler of p has returned its MappingResponse
Responded(p) == req[p].kind = "map" /\ req[p].pc = "responded"

\* the chat_completion call of the batch's current account has raised
CallRaised(p) == req[p].kind = "map" /\ cc[p].pc = "raised"

Abs(n) == IF n < 0 THEN -n ELSE n

RECURSIVE SumSeq(_)
SumSeq(q) == IF Len(q) = 0 THEN 0 ELSE q[1] + SumSeq(Tail(q))

ConfidencesOf(results) == [i \in 1..Len(results) |-> results[i].confidence_score]

-----------------------------------------------------------------------------
(* C7: a successful batch returns one MappingResult per source account, in *)
(* the order of request.source_accounts.                                   *)
C7_OneResultPerAccountInOrder ==
    \A p \in Procs :
        Responded(p) =>
            LET results == req[p].reply.results
                sources == req[p].request.source_accounts
            IN  /\ Len(results) = Len(sources)
                /\ \A i \in 1..Len(results) :
                      results[i].source_account_code = sources[i].account_code

C7_Witness ==
    \E p \in Procs :
        /\ Responded(p)
        /\ Len(req[p].reply.results) = 3
        /\ req[p].reply.results[1].source_account_code = "2020"
        /\ req[p].reply.results[2].source_account_code = "1010"
        /\ req[p].reply.results[3].source_account_code = "1010"

(* C8: when the upstream call of one account of a batch fails, the batch   *)
(* fails as a whole: the caller gets an error that carries no results, the *)
(* session is marked failed, and the failed call is the last call of the   *)
(* batch.                                                                  *)
C8_OneFailureFailsTheBatch ==
    \A p \in Procs :
        CallRaised(p) =>
            /\ req[p].pc = "failed"
            /\ req[p].reply.kind = "error"
            /\ req[p].reply.status_code = 500
            /\ "results" \notin DOMAIN req[p].reply
            /\ mapping_sessions[req[p].session_id].status = "failed"
            /\ req[p].calls = Len(req[p].results) + 1
            /\ req[p].calls = req[p].i + 1

C8_Witness ==
    \E p \in Procs :
        /\ CallRaised(p)
        /\ req[p].pc = "failed"
        /\ Len(req[p].request.source_accounts) = 3
        /\ Len(req[p].results) = 1
        /\ Len(cc[p].replies) = 3

(* C9: the summary of a successful batch counts its results, counts those  *)
(* whose confidence_score is at least the request's threshold, and echoes  *)
(* the threshold.                                                          *)
C9_SummaryCounts ==
    \A p \in Procs :
        Responded(p) =>
            LET results == req[p].reply.results
                summary == req[p].reply.summary
                threshold == req[p].request.confidence_threshold
            IN  /\ summary.total_mappings = Len(results)
                /\ summary.confidence_threshold = threshold
                /\ summary.high_confidence_mappings =
                      Cardinality({i \in 1..Len(results) :
                          threshold # None /\ results[i].confidence_score >= threshold[1]})

C9_Witness ==
    \E p \in Procs :
        /\ Responded(p)
        /\ req[p].request.confidence_threshold = Some(70)
        /\ ConfidencesOf(req[p].reply.results) = <<70, 0, 95>>
        /\ req[p].reply.summary.high_confidence_mappings = 2

(* C10, as claimed: the average_confidence of a successful batch equals    *)
(* the arithmetic mean of its confidences (in tenths: n * average = 10 *   *)
(* sum) and is 0 for an empty batch.                                       *)
C10_Original_AverageIsTheMean ==
    \A p \in Procs :
        Responded(p) =>
            LET c == ConfidencesOf(req[p].reply.results)
                avg == req[p].reply.summary.average_confidence
            IN  IF Len(c) = 0 THEN avg = 0
                ELSE Len(c) * avg = 10 * SumSeq(c)

(* C10, amended: the average_confidence of a successful batch is the       *)
(* arithmetic mean of its confidences rounded to one decimal place: a      *)
(* whole number of tenths that differs from the mean by at most 0.05; it   *)
(* is 0 for an empty batch.                                                *)
C10_AverageIsTheMeanRoundedToTenths ==
    \A p \in Procs :
        Responded(p) =>
            LET c == ConfidencesOf(req[p].reply.results)
                avg == req[p].reply.summary.average_confidence
            IN  IF Len(c) = 0 THEN avg = 0
                ELSE 2 * Abs(Len(c) * avg - 10 * SumSeq(c)) <= Len(c)

C10_Witness ==
    \E p \in Procs :
        /\ Responded(p)
        /\ ConfidencesOf(req[p].reply.results) = <<95, 95, 70>>
        /\ req[p].reply.summary.average_confidence = 867

(* C11: the upstream calls of a batch are strictly sequential: the call of  *)
(* the next account starts only after the previous call has returned and a *)
(* sleep of 3 seconds has ended, at most one call of the batch is in       *)
(* flight, and no sleep follows the last account.                          *)
C11_CallsSequentialWithDelay ==
    \A p \in Procs :
        req[p].kind = "map" =>
            LET fr == req[p]
                n == Len(fr.request.source_accounts)
            IN  /\ fr.calls <= Len(fr.results) + 1
                /\ \A k \in 1..Len(fr.delays) : fr.delays[k] = 3
                /\ Len(fr.delays) <= IF n = 0 THEN 0 ELSE n - 1
                /\ (cc[p].pc \in {"inflight", "sleeping"} =>
                        /\ fr.pc = "calling"
                        /\ fr.calls = Len(fr.results) + 1
                        /\ Len(fr.delays) = fr.calls - 1)
                /\ (fr.pc = "delay" =>
                        /\ cc[p].pc = "idle"
                        /\ fr.delay = 3
                        /\ fr.calls = Len(fr.results)
                        /\ Len(fr.delays) = fr.calls
                        /\ Len(fr.results) < n)
                /\ (fr.pc = "responded" =>
                        /\ cc[p].pc = "idle"
                        /\ fr.calls = n
                        /\ Len(fr.delays) = IF n = 0 THEN 0 ELSE n - 1)

C11_Witness ==
    \E p \in Procs :
        /\ req[p].kind = "map"
        /\ Len(req[p].request.source_accounts) = 3
        /\ req[p].calls = 3
        /\ req[p].delays = <<3, 3>>
        /\ cc[p].pc = "sleeping"

(* C12: every batch that was started ends: its session leaves 'processing' *)
(* and becomes 'completed' or 'failed', given that every POST and every    *)
(* sleep of the batch ends.                                                *)
C12_BatchTerminates ==
    \A sid \in SessionIds :
        (sid \in DOMAIN mapping_sessions /\ mapping_sessions[sid].status = "processing")
            ~> ( /\ sid \in DOMAIN mapping_sessions
                 /\ mapping_sessions[sid].status \in {"completed", "failed"} )

C12_Witness ==
    \E p \in Procs :
        /\ Responded(p)
        /\ mapping_sessions[req[p].session_id].status = "completed"
        /\ mapping_sessions[req[p].session_id].processed_accounts = 3
        /\ req[p].delays = <<3, 3>>

(* C13: in every interleaving of concurrent chat_completion calls the       *)
(* connection is created exactly once, every call holds that connection,   *)
(* and every POST of a call goes over the connection the call took at its  *)
(* start.                                                                  *)
C13_OneConnectionForAllCalls ==
    /\ client.created <= 1
    /\ \A p \in Procs :
          Running(cc[p]) =>
              /\ client.created = 1
              /\ cc[p].session = client.session
              /\ cc[p].session # NoSession
              /\ Len(cc[p].conns) = cc[p].posts
              /\ \A k \in 1..Len(cc[p].conns) : cc[p].conns[k] = cc[p].session

C13_Witness ==
    /\ cc["p1"].pc = "inflight" /\ cc["p1"].posts = 3
    /\ cc["p2"].pc = "sleeping" /\ cc["p2"].posts = 2
    /\ cc["p1"].session = cc["p2"].session
    /\ client.created = 1

\* the results a batch returns for the completion texts its calls were given
AloneResults(request, texts) ==
    [i \in 1..Len(texts) |->
        MappingResultOf(request.source_accounts[i], parse_claude_response(texts[i]))]

\* the batch of p and its session record hold what the batch's own replies give
OwnResultsOnly(p) ==
    LET fr == req[p]
        session == mapping_sessions[fr.session_id]
        alone == AloneResults(fr.request, fr.texts)
    IN  /\ fr.results = alone
        /\ session.results = alone
        /\ session.total_accounts = Len(fr.request.source_accounts)
        /\ session.processed_accounts = Len(fr.texts)
        /\ (fr.pc = "responded" =>
                /\ Len(fr.texts) = Len(fr.request.source_accounts)
                /\ fr.reply.results = alone
                /\ fr.reply.summary = SummaryOf(alone, fr.request.confidence_threshold)
                /\ session.summary = fr.reply.summary
                /\ session.status = "completed")

\* a step changes the frames of one handler and no session record but that
\* handler's own
WritesOwnRecordOnly ==
    \E p \in Procs :
        /\ \A q \in Procs \ {p} : req'[q] = req[q] /\ cc'[q] = cc[q]
        /\ \A sid \in DOMAIN mapping_sessions' :
              (sid \notin DOMAIN mapping_sessions \/ mapping_sessions'[sid] # mapping_sessions[sid])
                  => (req'[p].kind = "map" /\ req'[p].session_id = sid)

(* C14: concurrent batches share nothing but the connection: every step of *)
(* a batch writes only its own frames and its own session record, and the  *)
(* results and the summary of a batch are those its own upstream replies   *)
(* give, in every interleaving.                                            *)
C14_BatchesAreIsolated ==
    /\ [](\A p \in Procs : req[p].kind = "map" => OwnResultsOnly(p))
    /\ [][WritesOwnRecordOnly]_vars

C14_Witness ==
    /\ Responded("p1") /\ req["p1"].session_id = "s2"
    /\ Len(req["p1"].reply.results) = 2
    /\ req["p2"].kind = "map" /\ req["p2"].pc = "delay"
    /\ req["p2"].session_id = "s1"
    /\ mapping_sessions["s1"].processed_accounts = 1
    /\ mapping_sessions["s2"].status = "completed"
    /\ ConfidencesOf(req["p1"].reply.results) = <<70, 95>>
    /\ ConfidencesOf(req["p2"].results) = <<95>>

-----------------------------------------------------------------------------
(* Vocabulary of the properties of parse_claude_response *)

\* the caller p has the result of parsing a text
Parsed(p) == req[p].kind = "parse" /\ req[p].pc = "returned"

Labels == {"MAPPING:", "CONFIDENCE:", "REASONING:", "ALTERNATIVES:"}

\* the indices at which a line of s starts with the label, in any letter case
LabelledLines(s, label) ==
    {i \in 1..Len(s) : LabelOf(s[i]) = label /\ (i = 1 \/ s[i - 1] = NL)}

\* what is written after index i up to the end of its line, trimmed
RestOfLine(s, i) ==
    LET stops == {k \in (i + 1)..Len(s) : s[k] = NL}
    IN  Strip(Slice(s, i + 1, IF stops = {} THEN Len(s) ELSE SetMin(stops) - 1))

\* the value of the first line of s that starts with the label
ValueOf1(s, label) == RestOfLine(s, SetMin(LabelledLines(s, label)))

(* C15: for a text that has a line for each of the four labels, the parser *)
(* returns for each label exactly what is written after it on its line,    *)
(* trimmed (as a number for CONFIDENCE, as the list it spells for          *)
(* ALTERNATIVES), whatever else the text holds.                            *)
C15_LabelledValuesExtracted ==
    \A p \in Procs :
        (Parsed(p) /\ \A l \in Labels : LabelledLines(req[p].text, l) # {}) =>
            LET s == req[p].text
                r == req[p].result
            IN  /\ r.mapping = ValueOf1(s, "MAPPING:")
                /\ (~IntRaises(ValueOf1(s, "CONFIDENCE:")) =>
                        r.confidence = ToInt(ValueOf1(s, "CONFIDENCE:")))
                /\ r.reasoning = ValueOf1(s, "REASONING:")
                /\ r.alternatives = AlternativesOf(ValueOf1(s, "ALTERNATIVES:"))

\* the label occurs nowhere in s, in no letter case
Absent(s, label) == \A i \in 1..Len(s) : LabelOf(s[i]) # label

\* the field of the parser's result that belongs to the label
FieldOf(r, label) ==
    CASE label = "MAPPING:" -> r.mapping
      [] label = "CONFIDENCE:" -> <<r.confidence>>
      [] label = "REASONING:" -> r.reasoning
      [] OTHER -> r.alternatives

\* the value a field has when its label was not found
DefaultOf(label) ==
    CASE label = "MAPPING:" -> <<"UNKNOWN">>
      [] label = "CONFIDENCE:" -> <<0>>
      [] label = "REASONING:" -> <<"No reasoning provided">>
      [] OTHER -> <<>>

(* C16: for every label that occurs nowhere in the text the parser returns *)
(* the default of its field (UNKNOWN, 0, 'No reasoning provided', no       *)
(* alternatives) and does not raise, whichever other labels the text has.  *)
C16_AbsentLabelGivesDefault ==
    \A p \in Procs :
        req[p].kind = "parse" =>
            \A l \in Labels :
                Absent(req[p].text, l) =>
                    /\ req[p].pc = "returned"
                    /\ FieldOf(req[p].result, l) = DefaultOf(l)

C16_Witness ==
    \E p \in Procs :
        /\ Parsed(p)
        /\ Absent(req[p].text, "MAPPING:") /\ Absent(req[p].text, "ALTERNATIVES:")
        /\ ~Absent(req[p].text, "CONFIDENCE:") /\ ~Absent(req[p].text, "REASONING:")
        /\ req[p].result.mapping = <<"UNKNOWN">>
        /\ req[p].result.alternatives = <<>>
        /\ req[p].result.confidence = 95
        /\ req[p].result.reasoning = <<"cash", NL, "note">>

C18_ConfidenceWithinRange ==
    \A p \in Procs :
        req[p].kind = "map" =>
            /\ \A i \in 1..Len(req[p].results) :
                  req[p].results[i].confidence_score \in 0..100
            /\ \A i \in 1..Len(req[p].results) :
                  Absent(req[p].texts[i], "CONFIDENCE:") =>
                      req[p].results[i].confidence_score = 0

(* C19: no alternative of a parsed result is empty or is the word 'none'   *)
(* in any letter case; a text whose ALTERNATIVES: value is None gives no   *)
(* alternatives at all.                                                    *)
C19_NoNoneAmongAlternatives ==
    \A p \in Procs :
        Parsed(p) =>
            LET s == req[p].text
                alts == req[p].result.alternatives
                at == {i \in 1..Len(s) : LabelOf(s[i]) = "ALTERNATIVES:"}
            IN  /\ \A k \in 1..Len(alts) :
                      /\ alts[k] # <<>>
                      /\ Strip(alts[k]) = alts[k]
                      /\ Lower(alts[k]) # <<"none">>
                /\ (at # {} /\ Lower(RestOfLine(s, SetMin(at))) = <<"none">>)
                      => alts = <<>>

C19_Witness ==
    \E p \in Procs :
        /\ Parsed(p)
        /\ req[p].text = << "ALTERNATIVES:", " ", "E102", ",", " ", "None", ",", NL,
                            "MAPPING:", " ", "E101" >>
        /\ req[p].result.alternatives = << <<"E102">> >>

\* the line breaks after index i that are followed by a line starting with one
\* of the other three labels
NextLabelBreaks(s, i) ==
    {k \in (i + 1)..(Len(s) - 1) :
        s[k] = NL /\ LabelOf(s[k + 1]) \in {"MAPPING:", "CONFIDENCE:", "ALTERNATIVES:"}}

\* the text after index i up to the next line that starts with another label
UpToNextLabel(s, i) ==
    Strip(Slice(s, i + 1, IF NextLabelBreaks(s, i) = {} THEN Len(s)
                          ELSE SetMin(NextLabelBreaks(s, i)) - 1))

(* C20: the reasoning is the text after REASONING:, continued over the     *)
(* following lines up to, and not including, the next line that starts     *)
(* with MAPPING:, CONFIDENCE: or ALTERNATIVES:, in whatever order the      *)
(* labels come.                                                            *)
C20_ReasoningEndsAtNextLabel ==
    \A p \in Procs :
        (Parsed(p) /\ LabelledLines(req[p].text, "REASONING:") # {}) =>
            req[p].result.reasoning =
                UpToNextLabel(req[p].text, SetMin(LabelledLines(req[p].text, "REASONING:")))

-----------------------------------------------------------------------------
\* the result carries the fields the parser gave for the text, unchanged
CarriesParsed(result, text) ==
    LET parsed == parse_claude_response(text)
    IN  /\ result.target_account_code = parsed.mapping
        /\ result.confidence_score = parsed.confidence
        /\ result.reasoning = parsed.reasoning
        /\ result.alternatives = parsed.alternatives

-----------------------------------------------------------------------------
(* Vocabulary of the properties of the upload store and the chat *)

\* the handler of p has answered an upload with status 'success'
Uploaded(p) ==
    /\ req[p].kind = "upload"
    /\ req[p].reply.kind = "response"
    /\ req[p].reply.status = "success"

\* every entry of the upload store is still there, as it was
StoreKept ==
    \A sid \in DOMAIN uploaded_files_data :
        /\ sid \in DOMAIN uploaded_files_data'
        /\ uploaded_files_data'[sid] = uploaded_files_data[sid]

(* C22: an entry of uploaded_files_data, once an upload has returned its    *)
(* session_id, stays present and unchanged through every later operation   *)
(* (chat, map-accounts, mapping-status, feedback, further uploads), and a  *)
(* chat request that carries the session_id finds the uploaded data.       *)
C22_UploadedDataStays ==
    /\ [][StoreKept]_vars
    /\ [](\A p \in Procs :
            /\ Uploaded(p) =>
                  /\ req[p].session_id \in DOMAIN uploaded_files_data
                  /\ uploaded_files_data[req[p].session_id].filename = req[p].file.filename
                  /\ uploaded_files_data[req[p].session_id].accounts = req[p].reply.accounts
            /\ ( /\ req[p].kind = "chat"
                  /\ req[p].request.session_id # None
                  /\ ValueOf(req[p].request.session_id) \in DOMAIN uploaded_files_data )
                    => req[p].found)

C22_Witness ==
    /\ DOMAIN uploaded_files_data = {"u1", "u2"}
    /\ uploaded_files_data["u1"].filename = << "accounts", ".csv" >>
    /\ uploaded_files_data["u2"].filename = << "old", ".xls" >>
    /\ "s1" \in DOMAIN mapping_sessions
    /\ req["p1"].kind = "chat" /\ req["p1"].pc = "calling"
    /\ req["p1"].request.session_id = Some("u1")
    /\ req["p1"].found
    /\ cc["p1"].pc = "sleeping"

\* the chat_completion call of p's chat request has raised
ChatCallRaised(p) == req[p].kind = "chat" /\ cc[p].pc = "raised"

(* C23: an upstream failure during a chat request always reaches the       *)
(* caller as an error response and never as a response with status        *)
(* 'success', on the generic path and on the file-analysis path.           *)
C23_ChatFailureIsAnError ==
    \A p \in Procs :
        ChatCallRaised(p) =>
            /\ req[p].pc = "failed"
            /\ req[p].reply.kind = "error"

-----------------------------------------------------------------------------
\* every occurrence of a label, in any letter case
Occurrences(s, label) == {i \in 1..Len(s) : LabelOf(s[i]) = label}

(* C24: a text whose ALTERNATIVES: label has nothing but blanks after it   *)
(* on its line gives no alternatives, whether or not more lines follow.    *)
C24_EmptyAlternativesGiveNone ==
    \A p \in Procs :
        ( /\ Parsed(p)
          /\ Cardinality(Occurrences(req[p].text, "ALTERNATIVES:")) = 1
          /\ LabelledLines(req[p].text, "ALTERNATIVES:") # {}
          /\ ValueOf1(req[p].text, "ALTERNATIVES:") = <<>> ) =>
            req[p].result.alternatives = <<>>

\* s with every label that is not the first token of its line made a plain word
WithoutInnerLabels(s) ==
    [i \in 1..Len(s) |->
        IF LabelOf(s[i]) # "" /\ i > 1 /\ s[i - 1] # NL THEN "word" ELSE s[i]]

(* C25: a label counts only as the prefix of a line: a 'mapping:' in the   *)
(* middle of a line is not taken as the label, so the mapping the parser   *)
(* returns is the one it returns when such occurrences are plain words.    *)
C25_LabelsOnlyAtLineStart ==
    \A p \in Procs :
        Parsed(p) =>
            req[p].result.mapping =
                parse_claude_response(WithoutInnerLabels(req[p].text)).mapping

-----------------------------------------------------------------------------
Extensions == {".csv", ".xlsx", ".xls"}

UploadStep(p) == req[p] = IdleReq /\ req'[p].kind = "upload"

\* the store gains the entry of p's upload and nothing else changes in it
StoreGainsOne(p) ==
    /\ req'[p].session_id \notin DOMAIN uploaded_files_data
    /\ DOMAIN uploaded_files_data' = DOMAIN uploaded_files_data \cup {req'[p].session_id}
    /\ StoreKept

(* C27: an upload that fails (unsupported name, undecodable or unparseable *)
(* content) leaves uploaded_files_data as it was; the store changes only   *)
(* in an upload that answers 'success', which adds exactly one entry.      *)
C27_FailedUploadStoresNothing ==
    [][ /\ \A p \in Procs :
              UploadStep(p) =>
                  IF req'[p].reply.kind = "error"
                  THEN uploaded_files_data' = uploaded_files_data
                  ELSE req'[p].reply.status = "success" /\ StoreGainsOne(p)
        /\ (uploaded_files_data' # uploaded_files_data) =>
              \E p \in Procs : UploadStep(p) /\ req'[p].reply.kind = "response"
      ]_vars

C27_Witness ==
    \E p \in Procs :
        /\ req[p].kind = "upload"
        /\ req[p].reply.kind = "error"
        /\ req[p].file.filename = << "accounts", ".csv" >>
        /\ req[p].file.content.kind = "undecodable"
        /\ req[p].session_id = "u2"
        /\ DOMAIN uploaded_files_data = {"u1"}

(* C28: each record of mapping_sessions has processed_accounts =           *)
(* Len(results) <= total_accounts; a completed record has processed all    *)
(* accounts and carries a summary whose total_mappings is total_accounts;  *)
(* a failed record carries an error and has processed fewer accounts than  *)
(* total_accounts.                                                         *)
C28_SessionRecordShape ==
    \A sid \in DOMAIN mapping_sessions :
        LET s == mapping_sessions[sid]
        IN  /\ s.processed_accounts = Len(s.results)
            /\ s.processed_accounts <= s.total_accounts
            /\ (s.status = "completed" =>
                    /\ s.processed_accounts = s.total_accounts
                    /\ "summary" \in DOMAIN s
                    /\ s.summary.total_mappings = s.total_accounts)
            /\ (s.status = "failed" =>
                    /\ "error" \in DOMAIN s
                    /\ s.processed_accounts < s.total_accounts)

\* the status of every session stays or leaves 'processing' for an end state
StatusMovesForward ==
    \A sid \in DOMAIN mapping_sessions :
        /\ sid \in DOMAIN mapping_sessions'
        /\ \/ mapping_sessions'[sid].status = mapping_sessions[sid].status
           \/ /\ mapping_sessions[sid].status = "processing"
              /\ mapping_sessions'[sid].status \in {"completed", "failed"}

\* a session record appears only in the step that starts its map_accounts
CreatedByMapAccounts ==
    \A sid \in DOMAIN mapping_sessions' \ DOMAIN mapping_sessions :
        \E p \in Procs :
            /\ req[p] = IdleReq
            /\ req'[p].kind = "map"
            /\ req'[p].session_id = sid

\* get_mapping_status, run in this step, answers 404 exactly for the unknown
\* identifiers and the record for the known ones
StatusAnswer ==
    \A p \in Procs :
        (req[p] = IdleReq /\ req'[p].kind = "status") =>
            LET sid == req'[p].session_id
                reply == req'[p].reply
            IN  IF sid \in DOMAIN mapping_sessions
                THEN reply.kind = "response" /\ reply.body = mapping_sessions[sid]
                ELSE reply.kind = "error" /\ reply.status_code = StatusNotFound

(* C29: the status of a mapping session only moves from 'processing' to    *)
(* 'completed' or to 'failed', which are terminal; a session has one       *)
(* status at a time; its record is never removed; and get_mapping_status   *)
(* answers 404 exactly for the identifiers no map_accounts has created.    *)
C29_StatusOnlyMovesForward ==
    /\ [][StatusMovesForward /\ CreatedByMapAccounts /\ StatusAnswer]_vars
    /\ [](\A sid \in DOMAIN mapping_sessions :
             mapping_sessions[sid].status \in {"processing", "completed", "failed"})

C29_Witness ==
    \E p \in Procs :
        /\ req[p].kind = "status"
        /\ req[p].reply.kind = "response"
        /\ req[p].reply.body.status = "processing"
        /\ mapping_sessions[req[p].session_id].status = "failed"
        /\ "s2" \notin DOMAIN mapping_sessions

\* a close_session() is between its close and its self.session = None
Closing == \E p \in Procs : req[p].kind = "close_session"

\* a chat_completion that starts in this step sends its POST on a connection
\* that is not closed
StartsOnOpenConnection ==
    \A p \in Procs :
        (cc[p].pc = "idle" /\ cc'[p].posts = 1) =>
            /\ cc'[p].session \notin client.closed
            /\ cc'[p].session = client'.session

(* C30: a closed connection is never used again: once close() or           *)
(* close_session() has released the connection the client holds none, and  *)
(* a chat_completion that starts later posts on a newly created connection *)
(* and not on the closed one.                                              *)
C30_ClosedConnectionNeverUsed ==
    /\ [](~Closing => client.session \notin client.closed)
    /\ [][StartsOnOpenConnection]_vars

=============================================================================
